---- MODULE Spec2Model ----
(***************************************************************************)
(* uplink/models.py: the model converter builders behind the decorators    *)
(* models.load and models.dump.  A builder holds a base model class, a set *)
(* of required annotation classes and the decorated function; `using`      *)
(* attaches the function and registers the builder as a default converter  *)
(* factory; the pipeline then asks registered factories for a response     *)
(* body or request body converter, which `_marshall` answers with          *)
(* functools.partial(func, type_) or with None.                            *)
(***************************************************************************)
EXTENDS Integers, Sequences, FiniteSets, TLC

\* ------------------------------------------------------------------ bounds
\* builders created in one run
MaxBuilders == 2
\* applications of `using` to one builder
MaxUsing == 2
\* converters the pipeline keeps for later calls
MaxHeld == 1

\* ------------------------------------------------------------ Python values
\* Python's None: `_func` before a function is attached
None == "None"

\* model classes: Dog is a subclass of Animal, Plant is unrelated
Classes == {"Animal", "Dog", "Plant"}

\* the direct base of each model class
Superclass == [c \in Classes |-> IF c = "Dog" THEN "Animal" ELSE "object"]

\* values that are not classes (an instance of Dog)
Instances == {"rex"}

\* an annotation instance of class cls, one of uplink.json ("json"),
\* uplink.returns.json ("returns_json") and an argument annotation ("Body");
\* two instances of one class are different objects
Marker(cls, id) == [cls |-> cls, id |-> id]

\* the user's decorated functions
Funcs == {"f1", "f2"}

\* payloads handed to a converter
Payloads == {"p1", "p2"}

\* what a call returns: None, a reference to a function, a functools.partial,
\* the value of a user function call (kept as the call itself), or a raise
Value(tag, func, args) == [tag |-> tag, func |-> func, args |-> args]

NoneValue == Value("None", None, <<>>)

TypeError == Value("TypeError", None, <<>>)

\* type(x) for an annotation instance
type(m) == m.cls

\* set(xs) for a tuple or list xs
set(xs) == {xs[i] : i \in DOMAIN xs}

\* _get_classes = functools.partial(map, type)
_get_classes(xs) == [i \in DOMAIN xs |-> type(xs[i])]

\* cls.__mro__ without object: the class and its bases
RECURSIVE Mro(_)
Mro(cls) == IF cls \in Classes THEN {cls} \cup Mro(Superclass[cls]) ELSE {}

\* utils.is_subclass(cls, class_info) raises when class_info is no class
is_subclass_raises(cls, class_info) == cls \in Classes /\ class_info \notin Classes

\* utils.is_subclass(cls, class_info): inspect.isclass(cls) and
\* issubclass(cls, class_info)
is_subclass(cls, class_info) == cls \in Classes /\ class_info \in Mro(cls)

\* ---------------------------------------------------- _ModelConverterBuilder
\* _ModelConverterBuilder.__init__ on an instance of class `kind`
__init__(kind, base_class, annotations) ==
  [kind |-> kind, _model_class |-> base_class,
   _annotations |-> set(annotations), _func |-> None]

\* class load(_ModelConverterBuilder, converters.ConverterFactory)
load(base_class, annotations) == __init__("load", base_class, annotations)

\* class dump(_ModelConverterBuilder, converters.ConverterFactory)
dump(base_class, annotations) == __init__("dump", base_class, annotations)

\* from_json with the request-side annotation class uplink.json
from_json_request_marker(base_class) == load(base_class, <<"json">>)

\* load.from_json = functools.partial(load, annotations=(returns.json,))
from_json(base_class) == load(base_class, <<"returns_json">>)

\* dump.to_json = functools.partial(dump, annotations=(decorators.json,))
to_json(base_class) == dump(base_class, <<"json">>)

\* _contains_annotations that forgets the argument annotations
_contains_annotations_method_only(self, argument_annotations, method_annotations) ==
  self._annotations \subseteq set(_get_classes(method_annotations))

\* _ModelConverterBuilder._contains_annotations
_contains_annotations(self, argument_annotations, method_annotations) ==
  LET types == set(_get_classes(argument_annotations))
                 \cup set(_get_classes(method_annotations))
  IN  self._annotations \subseteq types

\* _ModelConverterBuilder._is_relevant
_is_relevant(self, type_, argument_annotations, method_annotations) ==
  /\ is_subclass(type_, self._model_class)
  /\ _contains_annotations(self, argument_annotations, method_annotations)

\* functools.partial(func, *args): raises TypeError when func is not callable
partial(func, args) ==
  IF func = None THEN TypeError ELSE Value("partial", func, args)

\* _marshall that binds the builder's base class, not the encountered type
_marshall_base_class(self, type_, argument_annotations, method_annotations) ==
  IF is_subclass_raises(type_, self._model_class) THEN TypeError
  ELSE IF _is_relevant(self, type_, argument_annotations, method_annotations)
       THEN partial(self._func, <<self._model_class>>)
       ELSE NoneValue

\* _ModelConverterBuilder._marshall
_marshall(self, type_, argument_annotations, method_annotations) ==
  IF is_subclass_raises(type_, self._model_class) THEN TypeError
  ELSE IF _is_relevant(self, type_, argument_annotations, method_annotations)
       THEN partial(self._func, <<type_>>)
       ELSE NoneValue

\* converters.ConverterFactory: a factory that does not override a make_*
\* method has no converter for that direction
ConverterFactory_make_converter(self, type_, argument_annotations, method_annotations) ==
  NoneValue

\* self.make_response_body_converter(...): load defines it, dump inherits
\* the one of converters.ConverterFactory
make_response_body_converter(self, type_, argument_annotations, method_annotations) ==
  IF self.kind = "load"
  THEN _marshall(self, type_, argument_annotations, method_annotations)
  ELSE ConverterFactory_make_converter(self, type_, argument_annotations, method_annotations)

\* make_request_body_converter defined on _ModelConverterBuilder itself
make_request_body_converter_on_base(self, type_, argument_annotations, method_annotations) ==
  _marshall(self, type_, argument_annotations, method_annotations)

\* self.make_request_body_converter(...): dump defines it, load inherits
\* the one of converters.ConverterFactory
make_request_body_converter(self, type_, argument_annotations, method_annotations) ==
  IF self.kind = "dump"
  THEN _marshall(self, type_, argument_annotations, method_annotations)
  ELSE ConverterFactory_make_converter(self, type_, argument_annotations, method_annotations)

\* converters.register_default_converter_factory: the factory joins the
\* registry of default converter factories
register_default_converter_factory(reg, b) == Append(reg, b)

\* calling functools.partial(func, type_) with one payload: func(type_, payload)
CallPartial(conv, payload) ==
  Value("result", conv.func, conv.args \o <<payload>>)

\* ------------------------------------------------------------------- state
VARIABLES
  builders,     \* the builders created so far, by index
  form,         \* how each builder was created: "primary" or "preset"
  attachments,  \* how many times `using` was applied to each builder
  registry,     \* the default converter factories, as builder indices
  held,         \* converters the pipeline got and kept, with their query
  last          \* the last operation, its arguments and what it returned

vars == <<builders, form, attachments, registry, held, last>>

\* an operation: its receiver and arguments, the user functions it ran and
\* what it returned
Event(op, b, dir, type_, pm, mm, func, payload, calls, ret) ==
  [op |-> op, b |-> b, dir |-> dir, type |-> type_, pm |-> pm, mm |-> mm,
   func |-> func, payload |-> payload, calls |-> calls, ret |-> ret]

NoEvent == Event("init", 0, "-", "-", <<>>, <<>>, None, "-", <<>>, NoneValue)

Init ==
  /\ builders = <<>>
  /\ form = <<>>
  /\ attachments = <<>>
  /\ registry = <<>>
  /\ held = <<>>
  /\ last = NoEvent

\* a new builder object joins the heap, in no registry yet
Created(builder, how) ==
  /\ builders' = Append(builders, builder)
  /\ form' = Append(form, how)
  /\ attachments' = Append(attachments, 0)
  /\ last' = Event("new", Len(builders) + 1, "-", "-", <<>>, <<>>, None, "-", <<>>,
                   NoneValue)
  /\ UNCHANGED <<registry, held>>

\* models.load(base_class, annotations)
NewLoad(base_class, annotations) ==
  /\ Len(builders) < MaxBuilders
  /\ Created(load(base_class, annotations), "primary")

\* models.dump(base_class, annotations)
NewDump(base_class, annotations) ==
  /\ Len(builders) < MaxBuilders
  /\ Created(dump(base_class, annotations), "primary")

\* models.load.from_json(base_class)
NewFromJson(base_class) ==
  /\ Len(builders) < MaxBuilders
  /\ Created(from_json(base_class), "preset")

\* models.dump.to_json(base_class)
NewToJson(base_class) ==
  /\ Len(builders) < MaxBuilders
  /\ Created(to_json(base_class), "preset")

\* using that returns the builder (`return self`) instead of the function
using_returns_self(b, func) ==
  /\ b \in DOMAIN builders
  /\ attachments[b] < MaxUsing
  /\ builders' = [builders EXCEPT ![b]._func = func]
  /\ registry' = register_default_converter_factory(registry, b)
  /\ attachments' = [attachments EXCEPT ![b] = @ + 1]
  /\ last' = Event("using", b, "-", "-", <<>>, <<>>, func, "-", <<>>,
                   Value("builder", None, <<b>>))
  /\ UNCHANGED <<form, held>>

\* using that registers the builder but never stores the function
using_without_func(b, func) ==
  /\ b \in DOMAIN builders
  /\ attachments[b] < MaxUsing
  /\ builders' = builders
  /\ registry' = register_default_converter_factory(registry, b)
  /\ attachments' = [attachments EXCEPT ![b] = @ + 1]
  /\ last' = Event("using", b, "-", "-", <<>>, <<>>, func, "-", <<>>,
                   Value("function", func, <<>>))
  /\ UNCHANGED <<form, held>>

\* using that stores the function but never registers the builder
using_without_register(b, func) ==
  /\ b \in DOMAIN builders
  /\ attachments[b] < MaxUsing
  /\ builders' = [builders EXCEPT ![b]._func = func]
  /\ registry' = IF attachments[b] = 0 THEN registry
                 ELSE register_default_converter_factory(registry, b)
  /\ attachments' = [attachments EXCEPT ![b] = @ + 1]
  /\ last' = Event("using", b, "-", "-", <<>>, <<>>, func, "-", <<>>,
                   Value("function", func, <<>>))
  /\ UNCHANGED <<form, held>>

\* builder.using(func), also builder(func): store the function, register the
\* builder, return the function
using(b, func) ==
  /\ b \in DOMAIN builders
  /\ attachments[b] < MaxUsing
  /\ builders' = [builders EXCEPT ![b]._func = func]
  /\ registry' = register_default_converter_factory(registry, b)
  /\ attachments' = [attachments EXCEPT ![b] = @ + 1]
  /\ last' = Event("using", b, "-", "-", <<>>, <<>>, func, "-", <<>>,
                   Value("function", func, <<>>))
  /\ UNCHANGED <<form, held>>

\* a converter whose bound type lives on the builder: a later bind on the
\* same builder rebinds the converters handed out before
Answer_shared_type(b, dir, type_, pm, mm, ret, keep) ==
  /\ last' = Event("query", b, dir, type_, pm, mm, None, "-", <<>>, ret)
  /\ held' = LET rebound == [h \in DOMAIN held |->
                               IF held[h].b = b /\ ret.tag = "partial"
                               THEN [held[h] EXCEPT !.conv.args = <<type_>>]
                               ELSE held[h]]
             IN  IF keep /\ ret.tag = "partial" /\ Len(held) < MaxHeld
                 THEN Append(rebound, [conv |-> ret, b |-> b, type |-> type_,
                                       func |-> builders[b]._func])
                 ELSE rebound
  /\ UNCHANGED <<builders, form, attachments, registry>>

\* the query returns `ret` to the pipeline: nothing of the builder or the
\* registry changes and no user function runs; the pipeline may keep a
\* converter, remembered with the builder, the encountered type and the
\* function the builder had at that moment
Answer(b, dir, type_, pm, mm, ret, keep) ==
  /\ last' = Event("query", b, dir, type_, pm, mm, None, "-", <<>>, ret)
  /\ held' = IF keep /\ ret.tag = "partial" /\ Len(held) < MaxHeld
             THEN Append(held, [conv |-> ret, b |-> b, type |-> type_,
                                func |-> builders[b]._func])
             ELSE held
  /\ UNCHANGED <<builders, form, attachments, registry>>

\* a query that narrows the builder's base class to the encountered type
MakeResponseBodyConverter_narrowing(i, type_, pm, mm, keep) ==
  /\ i \in DOMAIN registry
  /\ last' = Event("query", registry[i], "response", type_, pm, mm, None, "-", <<>>,
                   make_response_body_converter(builders[registry[i]], type_, pm, mm))
  /\ builders' = IF last'.ret.tag = "partial"
                 THEN [builders EXCEPT ![registry[i]]._model_class = type_]
                 ELSE builders
  /\ UNCHANGED <<form, attachments, registry, held>>

\* the pipeline asks registered factory i for a response body converter
MakeResponseBodyConverter(i, type_, pm, mm, keep) ==
  /\ i \in DOMAIN registry
  /\ Answer(registry[i], "response", type_, pm, mm,
            make_response_body_converter(builders[registry[i]], type_, pm, mm), keep)

\* the pipeline asks registered factory i for a request body converter
MakeRequestBodyConverter(i, type_, pm, mm, keep) ==
  /\ i \in DOMAIN registry
  /\ Answer(registry[i], "request", type_, pm, mm,
            make_request_body_converter(builders[registry[i]], type_, pm, mm), keep)

\* the pipeline calls a converter it kept with a payload: the partial calls
\* its function with its bound arguments and the payload
Invoke(h, payload) ==
  /\ h \in DOMAIN held
  /\ last' = Event("invoke", held[h].b, "-", held[h].type, <<>>, <<>>,
                   held[h].func, payload,
                   <<[func |-> held[h].conv.func, args |-> held[h].conv.args \o <<payload>>]>>,
                   CallPartial(held[h].conv, payload))
  /\ UNCHANGED <<builders, form, attachments, registry, held>>

\* one step of the program over the given input sets
NextOver(Bases, Anns, Types, ArgLists, MethodLists) ==
  \/ \E base \in Bases, ann \in Anns : NewLoad(base, ann)
  \/ \E base \in Bases, ann \in Anns : NewDump(base, ann)
  \/ \E base \in Bases : NewFromJson(base)
  \/ \E base \in Bases : NewToJson(base)
  \/ \E b \in DOMAIN builders, func \in Funcs : using(b, func)
  \/ \E i \in DOMAIN registry, type_ \in Types, pm \in ArgLists,
        mm \in MethodLists, keep \in BOOLEAN :
        MakeResponseBodyConverter(i, type_, pm, mm, keep)
  \/ \E i \in DOMAIN registry, type_ \in Types, pm \in ArgLists,
        mm \in MethodLists, keep \in BOOLEAN :
        MakeRequestBodyConverter(i, type_, pm, mm, keep)
  \/ \E h \in DOMAIN held, payload \in Payloads : Invoke(h, payload)

\* the base_class arguments of a run: a class, or by mistake an instance
BaseChoices == {"Animal"} \cup Instances

\* the annotation collections of a query in a run
MarkerChoices == {<<>>, <<Marker("returns_json", 1)>>}

\* the encountered types of a query in a run: the base class and a subclass
TypeChoices == {"Animal", "Dog"}

Next == NextOver(BaseChoices, {<<>>}, TypeChoices, {<<>>}, MarkerChoices)

Spec == Init /\ [][Next]_vars

\* ------------------------------------------- one registered builder, queried
\* the annotation tuples a caller passes to load(...) / dump(...)
AnnotationChoices ==
  {<<>>, <<"json">>, <<"returns_json">>, <<"json", "Body">>, <<"Body", "Body">>}

\* the annotation collections of a query
MarkerLists ==
  {<<>>,
   <<Marker("json", 1)>>,
   <<Marker("returns_json", 1)>>,
   <<Marker("Body", 1)>>,
   <<Marker("json", 1), Marker("json", 2)>>,
   <<Marker("Body", 2), Marker("returns_json", 2)>>}

\* the builders the four forms create for a base class
Constructed(base) ==
  {[builder |-> load(base, ann), how |-> "primary"] : ann \in AnnotationChoices}
    \cup {[builder |-> dump(base, ann), how |-> "primary"] : ann \in AnnotationChoices}
    \cup {[builder |-> from_json(base), how |-> "preset"],
          [builder |-> to_json(base), how |-> "preset"]}

\* the state after one decorator application: @load(...)/@dump(...)/
\* @load.from_json(...)/@dump.to_json(...) on a function
InitMatch ==
  \E base \in {"Animal", "Dog"}, func \in Funcs :
    \E c \in Constructed(base) :
      /\ builders = <<[c.builder EXCEPT !._func = func]>>
      /\ form = <<c.how>>
      /\ attachments = <<1>>
      /\ registry = register_default_converter_factory(<<>>, 1)
      /\ held = <<>>
      /\ last = Event("using", 1, "-", "-", <<>>, <<>>, func, "-", <<>>,
                      Value("function", func, <<>>))

\* the pipeline queries the registered builder and calls what it got
NextMatch ==
  \/ \E i \in DOMAIN registry, type_ \in Classes, pm \in MarkerLists,
        mm \in MarkerLists, keep \in BOOLEAN :
        MakeResponseBodyConverter(i, type_, pm, mm, keep)
  \/ \E i \in DOMAIN registry, type_ \in Classes, pm \in MarkerLists,
        mm \in MarkerLists, keep \in BOOLEAN :
        MakeRequestBodyConverter(i, type_, pm, mm, keep)
  \/ \E h \in DOMAIN held, payload \in Payloads : Invoke(h, payload)

SpecMatch == InitMatch /\ [][NextMatch]_vars

\* ------------------------------------------------------------------ claims
\* the elements of a tuple
Range(xs) == {xs[i] : i \in DOMAIN xs}

\* the annotation classes present at a call site
Supplied(pm, mm) == {m.cls : m \in Range(pm) \cup Range(mm)}

\* T is B or a subclass of B
InFamily(T, B) == T = B \/ <<T, B>> \in {<<"Dog", "Animal">>}

\* the direction a facade registers for
DirectionOf(kind) == IF kind = "load" THEN "response" ELSE "request"

\* how often builder b is in the registry
Count(b, reg) == Cardinality({i \in DOMAIN reg : reg[i] = b})

\* the last operation was a query that reached _marshall of its builder
Marshalled ==
  /\ last.op = "query"
  /\ last.dir = DirectionOf(builders[last.b].kind)

\* C1: a query that reaches _marshall of a builder with base class B and
\* required annotation classes R gets a converter if and only if the
\* encountered type is B or a subclass of B and the classes of the argument
\* and method annotations together include R; otherwise it gets None
C1_SupersetLaw ==
  Marshalled =>
    LET self == builders[last.b]
        match == /\ InFamily(last.type, self._model_class)
                 /\ self._annotations \subseteq Supplied(last.pm, last.mm)
    IN  /\ match <=> last.ret.tag = "partial"
        /\ ~match => last.ret = NoneValue

\* a subclass matched with a non-empty requirement met by an argument
\* annotation alone, and with an extra annotation class present
C1_Witness ==
  /\ Marshalled
  /\ last.ret.tag = "partial"
  /\ last.type = "Dog" /\ builders[last.b]._model_class = "Animal"
  /\ builders[last.b]._annotations = {"json"}
  /\ Supplied(last.pm, <<>>) = {"json"}
  /\ Supplied(<<>>, last.mm) = {"returns_json", "Body"}

\* C2: using(f) returns f itself, the same reference and nothing wrapped
\* around it
C2_IdentityPreservation ==
  last.op = "using" => last.ret = Value("function", last.func, <<>>)

\* using returned the function for a builder that can match no query (its
\* base class is no class)
C2_Witness ==
  /\ last.op = "using"
  /\ last.ret = Value("function", "f2", <<>>)
  /\ builders[last.b]._model_class \in Instances

\* C3: the converter a matching query returns is the attached function bound
\* to the encountered type, and calling it with payload p calls the attached
\* function once, with (encountered type, p), and returns that call's result
C3_ConverterCall ==
  /\ Marshalled /\ last.ret.tag = "partial" =>
       last.ret = Value("partial", builders[last.b]._func, <<last.type>>)
  /\ last.op = "invoke" =>
       /\ last.calls = <<[func |-> builders[last.b]._func,
                          args |-> <<last.type, last.payload>>]>>
       /\ last.ret = Value("result", builders[last.b]._func,
                           <<last.type, last.payload>>)

\* a converter bound by an Animal builder for the subclass Dog was called
C3_Witness ==
  /\ last.op = "invoke"
  /\ last.type = "Dog"
  /\ builders[last.b]._model_class = "Animal"
  /\ last.ret.args = <<"Dog", "p1">>

\* the primary form a preset builder must equal: the same facade with the
\* facade's JSON annotation class pre-supplied
PrimaryTwin(self) ==
  IF self.kind = "load"
  THEN [load(self._model_class, <<"returns_json">>) EXCEPT !._func = self._func]
  ELSE [dump(self._model_class, <<"json">>) EXCEPT !._func = self._func]

\* C4: a builder made by load.from_json(B) / dump.to_json(B) is the builder
\* load(B, (returns.json,)) / dump(B, (json,)) makes, so every query answers
\* as that one does: a converter exactly when the type check passes and an
\* annotation of the facade's JSON class is present
C4_PresetEquivalence ==
  \A b \in DOMAIN builders :
    form[b] = "preset" =>
      LET self == builders[b]
          json == IF self.kind = "load" THEN "returns_json" ELSE "json"
      IN  /\ self = PrimaryTwin(self)
          /\ Marshalled /\ last.b = b =>
               /\ last.ret.tag = "partial" <=>
                    /\ InFamily(last.type, self._model_class)
                    /\ json \in Supplied(last.pm, last.mm)
               /\ last.ret.tag # "partial" => last.ret = NoneValue

\* a from_json builder declined a query of its own type that carries no
\* returns.json annotation (only uplink.json)
C4_Witness ==
  /\ Marshalled
  /\ form[last.b] = "preset"
  /\ builders[last.b].kind = "load"
  /\ last.type = builders[last.b]._model_class
  /\ Supplied(last.pm, last.mm) = {"json"}
  /\ last.ret = NoneValue

\* C5: a query gets a converter only in the direction of the builder's
\* facade: a load builder answers None to every request body query, a dump
\* builder answers None to every response body query
C5_DirectionIsolation ==
  last.op = "query" /\ last.dir # DirectionOf(builders[last.b].kind) =>
    last.ret = NoneValue

\* a load builder whose type and annotation checks pass for the query
\* declined it because it was a request body query
C5_Witness ==
  /\ last.op = "query"
  /\ last.dir = "request"
  /\ builders[last.b].kind = "load"
  /\ InFamily(last.type, builders[last.b]._model_class)
  /\ builders[last.b]._annotations \subseteq Supplied(last.pm, last.mm)
  /\ last.ret = NoneValue

\* C6: no builder whose base class is not a class is ever in the registry
C6_FailFast ==
  \A i \in DOMAIN registry : builders[registry[i]]._model_class \in Classes

\* C7: every builder in the registry has a function attached, a builder that
\* `using` was never applied to is not in the registry, and no query gets a
\* converter without a function or fails for a missing function
C7_AttachBeforeRegister ==
  /\ \A i \in DOMAIN registry : builders[registry[i]]._func \in Funcs
  /\ \A b \in DOMAIN builders :
       builders[b]._func = None => Count(b, registry) = 0
  /\ last.op = "query" =>
       /\ last.ret.tag = "partial" => last.ret.func \in Funcs
       /\ builders[last.b]._model_class \in Classes => last.ret # TypeError

\* one builder is registered and queried while another one, created earlier,
\* has no function and is in no registry
C7_Witness ==
  /\ last.op = "query"
  /\ last.ret.tag = "partial"
  /\ \E b \in DOMAIN builders :
       b < last.b /\ builders[b]._func = None /\ Count(b, registry) = 0

\* C8 as stated: once a builder has a function, it is in the registry
\* exactly once and its base class, annotations and function never change
C8_Original ==
  [][\A b \in DOMAIN builders' :
       builders'[b]._func # None =>
         /\ Count(b, registry') = 1
         /\ (b \in DOMAIN builders /\ builders[b]._func # None)
              => builders'[b] = builders[b]]_vars

\* C8, amended: a builder that `using` has been applied to exactly once is
\* in the registry exactly once, and as long as `using` is not applied to it
\* again no operation changes its base class, annotations or function
C8_RegisteredOnce ==
  [][\A b \in DOMAIN builders' :
       attachments'[b] = 1 =>
         /\ builders'[b]._func # None
         /\ Count(b, registry') = 1
         /\ (b \in DOMAIN builders /\ attachments[b] = 1)
              => builders'[b] = builders[b]]_vars

\* a builder attached once was queried while the other builder was attached
\* twice
C8_Witness ==
  /\ last.op = "query"
  /\ attachments[last.b] = 1
  /\ \E b \in DOMAIN builders : attachments[b] = 2

\* C9: a query, matching or not, leaves every builder and the registry as
\* they were and runs no user function
C9_QueryHasNoSideEffects ==
  [][last'.op = "query" =>
       /\ builders' = builders
       /\ registry' = registry
       /\ last'.calls = <<>>]_vars

\* a matching query returned a converter
C9_Witness ==
  /\ last.op = "query"
  /\ last.ret.tag = "partial"
  /\ last.type = "Dog"

\* C10: a converter that was handed out keeps the function the builder had
\* and the type encountered when it was bound, whatever is bound, attached
\* or called afterwards, and a call of it calls that function with that type
C10_BindTimeCapture ==
  [][/\ \A h \in DOMAIN held :
          /\ held'[h] = held[h]
          /\ held[h].conv = Value("partial", held[h].func, <<held[h].type>>)
     /\ last'.op = "invoke" =>
          \E h \in DOMAIN held :
            /\ last'.calls = <<[func |-> held[h].func,
                                args |-> <<held[h].type, last'.payload>>]>>
            /\ last'.ret = Value("result", held[h].func,
                                 <<held[h].type, last'.payload>>)]_vars

\* a kept converter was called after its builder got another function, and
\* still called the function it was bound with
C10_Witness ==
  /\ last.op = "invoke"
  /\ builders[last.b]._func # last.func
  /\ last.calls[1].func = last.func

====
